---- MODULE Spec2Model ----
(***************************************************************************)
(* Wallet-control (NWC) protocol client of frontend/src/hooks/useNWC.ts:   *)
(* the connection state machine, the pending-request table, its timers and *)
(* the asynchronous request / response handlers.                           *)
(***************************************************************************)
EXTENDS Integers, Sequences, FiniteSets, TLC

\* ------------------------------------------------------------------------
\* Bounds of the exploration
\* ------------------------------------------------------------------------
MaxChannels == 2        \* WebSocket objects created by connect()
MaxRequests == 2        \* calls of sendRequest (each connection adds its startup probe)
MaxJobs == 1            \* handleMessage invocations suspended in decryptMessage at once
MaxDisconnects == 1     \* calls of disconnect()
MaxErrors == 1          \* channels that fail with an error event

\* ------------------------------------------------------------------------
\* Values
\* ------------------------------------------------------------------------
NULL == "null"
None == <<>>
Some(x) == <<x>>

DISCONNECTED == "disconnected"
CONNECTING == "connecting"
CONNECTED == "connected"
ERROR == "error"

INFO == 13194
REQUEST == 23194
RESPONSE == 23195
NOTIFICATION == 23197

RequestTimeoutMs == 30000
InfoTimeoutMs == 10000

\* 64-hex-character keys are written by name: "s1" is a private key, "c1" its
\* public key, "w1" the public key of a wallet service; "zz" is a string that
\* is not 64 hex characters.
Hex64 == {"s1", "c1", "w1"}

\* secp256k1.getPublicKey(secret, true).slice(1) as hex; throws (None) when
\* the secret is not a private key
getPublicKey(secret) ==
  IF secret = "s1" THEN Some("c1") ELSE None

\* ECDH + HKDF: both parties derive the same key from complementary pairs
getConversationKey(privateKeyHex, publicKeyHex) ==
  {getPublicKey(privateKeyHex)[1], publicKeyHex}

\* the conversation key the wallet service uses towards a client public key
WalletConversationKey(walletPubkey, clientPubkey) == {walletPubkey, clientPubkey}

VERSION == 2

\* nip44 blob: its version byte, its nonce, the key it was produced under, whether
\* nonce/ciphertext/MAC are as produced, whether the length prefix of the
\* padded plaintext is valid, and the plaintext it carries
encrypt(plaintext, conversationKey, nonce) ==
  [version |-> VERSION, nonce |-> nonce, ck |-> conversationKey, intact |-> TRUE,
   padded |-> TRUE, plain |-> plaintext]

\* decrypt throws (None) on another version byte, when the recomputed MAC
\* differs, and when unpad rejects the length prefix
decrypt_Unverified(ciphertext, conversationKey) == Some(ciphertext.plain)

decrypt(ciphertext, conversationKey) ==
  IF ciphertext.version # VERSION THEN None
  ELSE IF ~(ciphertext.intact /\ ciphertext.ck = conversationKey) THEN None
  ELSE IF ~ciphertext.padded THEN None
  ELSE Some(ciphertext.plain)

\* the nonce encrypt draws with crypto.getRandomValues is an input here
encryptMessage(plaintext, senderPrivateKeyHex, recipientPublicKeyHex, nonce) ==
  encrypt(plaintext, getConversationKey(senderPrivateKeyHex, recipientPublicKeyHex),
          nonce)

\* ------------------------------------------------------------------------
\* Event ids
\* ------------------------------------------------------------------------
\* SHA-256 as a collision-free digest: a digest is written as the message it
\* was computed from
sha256(message) == [digest |-> message]

\* the id of no event
NoId == [digest |-> <<>>]

\* JSON.stringify([0, pubkey, created_at, kind, tags, content]) hashed
generateEventId_NoTags(pubkey, created_at, kind, tags, content) ==
  sha256(<<0, pubkey, created_at, kind, <<>>, content>>)

generateEventId(pubkey, created_at, kind, tags, content) ==
  sha256(<<0, pubkey, created_at, kind, tags, content>>)

verifyEventId(id, pubkey, created_at, kind, tags, content) ==
  id = generateEventId(pubkey, created_at, kind, tags, content)

\* Math.floor(Date.now() / 1000) while a request is built
Now == 1700000000

decryptMessage(ciphertext, recipientPrivateKeyHex, senderPublicKeyHex) ==
  decrypt(ciphertext, getConversationKey(recipientPrivateKeyHex, senderPublicKeyHex))

\* ------------------------------------------------------------------------
\* Strings, bytes and bit operations of frontend/src/lib/crypto.ts
\* ------------------------------------------------------------------------
\* A string is the sequence of its characters, a Uint8Array the sequence of
\* its bytes; positions in the source count from 0, positions here from 1.
\* A function that throws returns Err(message).
Ok(v) == [ok |-> TRUE, value |-> v]
Err(message) == [ok |-> FALSE, error |-> message]

RECURSIVE Xor(_, _)
Xor(a, b) ==
  IF a = 0 THEN b
  ELSE IF b = 0 THEN a
  ELSE ((a + b) % 2) + 2 * Xor(a \div 2, b \div 2)

\* A for loop over the elements lo..hi of a sequence carries a value from one
\* element to the next. Each loop below splits its range in halves and
\* computes the first half before the second starts, which keeps the
\* evaluation shallow.

\* str.indexOf(ch) / str.lastIndexOf(ch): -1 when ch does not occur
indexOf(str, ch) ==
  LET at == {i \in DOMAIN str : str[i] = ch} IN
  IF at = {} THEN -1 ELSE (CHOOSE i \in at : \A j \in at : i <= j) - 1

lastIndexOf(str, ch) ==
  LET at == {i \in DOMAIN str : str[i] = ch} IN
  IF at = {} THEN -1 ELSE (CHOOSE i \in at : \A j \in at : i >= j) - 1

startsWith(str, prefix) ==
  Len(str) >= Len(prefix) /\ SubSeq(str, 1, Len(prefix)) = prefix

\* the letters of the identifier prefixes; toLowerCase leaves the rest
toLowerCase(str) ==
  LET UpperCase == <<"N", "P", "U", "B", "S", "E", "C">>
      LowerCase == <<"n", "p", "u", "b", "s", "e", "c">> IN
  [i \in DOMAIN str |->
     IF indexOf(UpperCase, str[i]) = -1 THEN str[i]
     ELSE LowerCase[indexOf(UpperCase, str[i]) + 1]]

\* 'n'.charCodeAt(0) and so on
charCodeAt(ch) ==
  CASE ch = "n" -> 110 [] ch = "p" -> 112 [] ch = "u" -> 117 [] ch = "b" -> 98
    [] ch = "s" -> 115 [] ch = "e" -> 101 [] ch = "c" -> 99

HexDigits == <<"0", "1", "2", "3", "4", "5", "6", "7", "8", "9",
               "a", "b", "c", "d", "e", "f">>

\* the value of a hexadecimal digit of either case, -1 for another character
HexValue(ch) ==
  IF indexOf(HexDigits, ch) # -1 THEN indexOf(HexDigits, ch)
  ELSE indexOf(<<"0", "1", "2", "3", "4", "5", "6", "7", "8", "9",
                 "A", "B", "C", "D", "E", "F">>, ch)

\* /^[0-9a-f]*$/i.test(hex) && hex.length % 2 === 0
isValidHex(hex) ==
  /\ \A i \in DOMAIN hex : HexValue(hex[i]) # -1
  /\ Len(hex) % 2 = 0

\* parseInt(hex.substr(i, 2), 16) for each pair of digits
hexToBytes(hex) ==
  IF Len(hex) % 2 # 0 THEN Err("Hex string must have even length")
  ELSE Ok([i \in 1..(Len(hex) \div 2) |->
             16 * HexValue(hex[2 * i - 1]) + HexValue(hex[2 * i])])

\* byte.toString(16).padStart(2, '0') joined
bytesToHex(bytes) ==
  [i \in 1..(2 * Len(bytes)) |->
     IF i % 2 = 1 THEN HexDigits[(bytes[(i + 1) \div 2] \div 16) + 1]
     ELSE HexDigits[(bytes[i \div 2] % 16) + 1]]

\* ------------------------------------------------------------------------
\* bech32
\* ------------------------------------------------------------------------
BECH32_CHARSET ==
  <<"q", "p", "z", "r", "y", "9", "x", "8", "g", "f", "2", "t", "v", "d", "w", "0",
    "s", "3", "j", "n", "5", "4", "k", "h", "c", "e", "6", "m", "u", "a", "7", "l">>

\* the inner loop: while (bits >= toBits) { bits -= toBits; result.push(...) }
RECURSIVE Drain(_, _, _, _)
Drain(acc, bits, toBits, result) ==
  IF bits >= toBits
  THEN Drain(acc, bits - toBits, toBits,
             Append(result, (acc \div 2^(bits - toBits)) % 2^toBits))
  ELSE [bits |-> bits, result |-> result]

\* one round of the outer loop; acc << fromBits drops the high bits of the
\* 32-bit integer acc: kept here are bits 0..29, read are at most bits 0..12
\* (bits < toBits before fromBits <= 8 are added)
convertBitsStep(r, value, fromBits, toBits) ==
  IF ~r.ok THEN r
  ELSE IF value < 0 \/ value \div 2^fromBits # 0 THEN [r EXCEPT !.ok = FALSE]
  ELSE LET shifted == ((r.acc % 2^(30 - fromBits)) * 2^fromBits) + value
           Round(d) == [ok |-> TRUE, acc |-> shifted, bits |-> d.bits, result |-> d.result] IN
       Round(Drain(shifted, r.bits + fromBits, toBits, r.result))

\* for (let i = 0; i < data.length; i++), from element lo to element hi
RECURSIVE convertBitsLoop(_, _, _, _, _, _)
convertBitsLoop(data, lo, hi, fromBits, toBits, r) ==
  IF lo > hi THEN r
  ELSE IF lo = hi THEN convertBitsStep(r, data[lo], fromBits, toBits)
  ELSE LET mid == (lo + hi) \div 2
           Second(half) ==
             IF half = half THEN convertBitsLoop(data, mid + 1, hi, fromBits, toBits, half)
             ELSE r IN
       Second(convertBitsLoop(data, lo, mid, fromBits, toBits, r))

\* convertBits returns null (Err) on a value out of range and, without
\* padding, on left-over bits that are too many or not zero
convertBits(data, fromBits, toBits, pad) ==
  LET \* (acc << (toBits - bits)) & maxv: the bits left over, bits < toBits
      Rest(r) == (r.acc % 2^r.bits) * 2^(toBits - r.bits)
      \* after the loop
      AfterLoop(r) ==
        IF ~r.ok THEN Err("null")
        ELSE IF pad THEN Ok(IF r.bits > 0 THEN Append(r.result, Rest(r)) ELSE r.result)
        ELSE IF r.bits >= fromBits \/ Rest(r) # 0 THEN Err("null")
        ELSE Ok(r.result) IN
  AfterLoop(convertBitsLoop(data, 1, Len(data), fromBits, toBits,
                            [ok |-> TRUE, acc |-> 0, bits |-> 0, result |-> <<>>]))

GENERATOR == <<996825010, 642813549, 513874426, 1027748829, 705979059>>

\* one round of the loop over values; the inner loop does chk ^= GENERATOR[j]
\* for each bit j set in b
bech32PolymodStep(chk, value) ==
  LET b == chk \div 2^25
      c0 == Xor((chk % 2^25) * 32, value)
      ApplyGenerator(c, j) ==
        IF (b \div 2^j) % 2 = 1 THEN Xor(c, GENERATOR[j + 1]) ELSE c IN
  ApplyGenerator(ApplyGenerator(ApplyGenerator(ApplyGenerator(ApplyGenerator(
    c0, 0), 1), 2), 3), 4)

\* for (let i = 0; i < values.length; i++), from element lo to element hi
RECURSIVE bech32PolymodLoop(_, _, _, _)
bech32PolymodLoop(values, lo, hi, chk) ==
  IF lo > hi THEN chk
  ELSE IF lo = hi THEN bech32PolymodStep(chk, values[lo])
  ELSE LET mid == (lo + hi) \div 2
           Second(half) ==
             IF half = half THEN bech32PolymodLoop(values, mid + 1, hi, half) ELSE chk IN
       Second(bech32PolymodLoop(values, lo, mid, chk))

bech32Polymod(values) == bech32PolymodLoop(values, 1, Len(values), 1)

prefixChk(prefix) ==
  [i \in DOMAIN prefix |-> charCodeAt(prefix[i]) \div 32] \o <<0>> \o
  [i \in DOMAIN prefix |-> charCodeAt(prefix[i]) % 32]

createChecksum(prefix, data) ==
  LET values == prefixChk(prefix) \o data \o <<0, 0, 0, 0, 0, 0>>
      polymod == Xor(bech32Polymod(values), 1) IN
  [i \in 1..6 |-> (polymod \div 2^(5 * (6 - i))) % 32]

bech32Encode(prefix, data) ==
  LET Text(combined) ==
        Ok(prefix \o <<"1">> \o [i \in DOMAIN combined |-> BECH32_CHARSET[combined[i] + 1]])
      Encode(words) ==
        IF ~words.ok THEN Err("Failed to convert bits")
        ELSE Text(words.value \o createChecksum(prefix, words.value)) IN
  Encode(convertBits(data, 8, 5, TRUE))

\* data.slice(0, -6)
DropChecksum_Keep(data) == data

DropChecksum(data) == SubSeq(data, 1, Len(data) - 6)

bech32Decode(str) ==
  LET pos == lastIndexOf(str, "1")
      data == [i \in 1..(Len(str) - pos - 1) |-> indexOf(BECH32_CHARSET, str[pos + 1 + i])] IN
  IF pos < 1 \/ pos + 7 > Len(str) \/ Len(str) > 90 THEN Err("Invalid bech32 string")
  ELSE IF \E i \in DOMAIN data : data[i] = -1 THEN Err("Invalid bech32 character")
  ELSE LET Decoded(bytes) ==
             IF ~bytes.ok THEN Err("Invalid bech32 data")
             ELSE Ok([prefix |-> toLowerCase(SubSeq(str, 1, pos)), data |-> bytes.value]) IN
       Decoded(convertBits(DropChecksum(data), 5, 8, FALSE))

Npub == <<"n", "p", "u", "b">>
Nsec == <<"n", "s", "e", "c">>

hexToNpub(hexPubkey) ==
  IF ~isValidHex(hexPubkey) \/ Len(hexPubkey) # 64 THEN Err("Invalid hex pubkey")
  ELSE bech32Encode(Npub, hexToBytes(hexPubkey).value)

\* the body shared by npubToHex and nsecToHex: every throw inside the try
\* block is rethrown as 'Failed to decode ...'
DecodeKey(str, prefix) ==
  IF ~startsWith(str, prefix \o <<"1">>) THEN Err("Invalid format")
  ELSE LET Hex(hex) == IF Len(hex) # 64 THEN Err("Failed to decode") ELSE Ok(hex)
           Key(decoded) ==
             IF ~decoded.ok THEN Err("Failed to decode")
             ELSE IF decoded.value.prefix # prefix THEN Err("Failed to decode")
             ELSE Hex(bytesToHex(decoded.value.data)) IN
       Key(bech32Decode(str))

npubToHex(npub) == DecodeKey(npub, Npub)

hexToNsec(hexPrivkey) ==
  IF ~isValidHex(hexPrivkey) \/ Len(hexPrivkey) # 64 THEN Err("Invalid hex private key")
  ELSE bech32Encode(Nsec, hexToBytes(hexPrivkey).value)

nsecToHex(nsec) == DecodeKey(nsec, Nsec)

\* npub.startsWith('npub1') && npub.length >= 63 && npub.length <= 65
isValidNpub(npub) == startsWith(npub, Npub \o <<"1">>) /\ Len(npub) >= 63 /\ Len(npub) <= 65

isValidNsec(nsec) == startsWith(nsec, Nsec \o <<"1">>) /\ Len(nsec) >= 63 /\ Len(nsec) <= 65

\* ------------------------------------------------------------------------
\* nip44 on bytes (lib/nip44.ts)
\* ------------------------------------------------------------------------
MIN_PLAINTEXT_SIZE == 1
MAX_PLAINTEXT_SIZE == 65535

\* the sum of bytes[lo..hi] and their sum weighted by position, modulo 256,
\* added to acc
RECURSIVE Sums(_, _, _, _)
Sums(bytes, lo, hi, acc) ==
  IF lo > hi THEN acc
  ELSE IF lo = hi
  THEN [s1 |-> (acc.s1 + bytes[lo]) % 256, s2 |-> (acc.s2 + lo * bytes[lo]) % 256]
  ELSE LET mid == (lo + hi) \div 2
           Second(half) == IF half = half THEN Sums(bytes, mid + 1, hi, half) ELSE acc IN
       Second(Sums(bytes, lo, mid, acc))

\* crypto.subtle's HMAC-SHA256, written as a keyed checksum of 32 bytes which,
\* like HMAC-SHA256, changes whenever one byte of the data or of the key
\* changes: byte j moves by (i + j) * d when byte i of the data moves by d
hmacSha256(key, data) ==
  LET Sign(k, d) ==
        [j \in 1..32 |->
           (d.s2 + j * d.s1 + k.s2 + (j + 1) * k.s1 + 7 * Len(data) + j) % 256] IN
  Sign(Sums(key, 1, Len(key), [s1 |-> 0, s2 |-> 0]),
       Sums(data, 1, Len(data), [s1 |-> 0, s2 |-> 0]))

\* extract, then expand in blocks of 32 bytes: t = HMAC(prk, t || info || counter)
hkdf(ikm, salt, info, length) ==
  LET prk == hmacSha256(salt, ikm)
      t1 == hmacSha256(prk, info \o <<1>>)
      t2 == hmacSha256(prk, t1 \o info \o <<2>>)
      t3 == hmacSha256(prk, t2 \o info \o <<3>>) IN
  SubSeq(t1 \o t2 \o t3, 1, length)

\* secp256k1 in small: the group of integers modulo the prime GroupOrder with
\* generator 1. A private key is a scalar a in 1..GroupOrder-1, its point is
\* a, the points a and GroupOrder - a share their x coordinate and exactly one
\* of them (the even one) has an even y. An x-only public key is that x.
GroupOrder == 23

\* the x-only public key of a private key
PublicKeyOf(privateKey) ==
  LET point == privateKey % GroupOrder IN
  IF point <= GroupOrder - point THEN point ELSE GroupOrder - point

\* secp256k1.getSharedSecret(privateKeyBytes, publicKeyBytes): the compressed
\* product, its parity byte (2 or 3) followed by its x coordinate
getSharedSecret(privateKey, publicPoint) ==
  LET product == (privateKey * publicPoint) % GroupOrder IN
  <<IF product % 2 = 0 THEN 2 ELSE 3, PublicKeyOf(product)>>

\* sharedPoint.slice(1, 33), as 32 big-endian bytes
SharedX_WithParity(sharedPoint) ==
  [i \in 1..32 |-> IF i = 32 THEN sharedPoint[2] ELSE IF i = 1 THEN sharedPoint[1] ELSE 0]

SharedX(sharedPoint) == [i \in 1..32 |-> IF i = 32 THEN sharedPoint[2] ELSE 0]

\* getConversationKey(privateKeyHex, publicKeyHex) on bytes; the salt is
\* new TextEncoder().encode('nip44-v2')
getConversationKeyBytes(privateKey, publicKey) ==
  LET \* hexToBytes('02' + publicKeyHex): the point with that x and an even y
      publicKeyBytes == IF publicKey % 2 = 0 THEN publicKey ELSE GroupOrder - publicKey IN
  hkdf(SharedX(getSharedSecret(privateKey, publicKeyBytes)),
       <<110, 105, 112, 52, 52, 45, 118, 50>>, <<>>, 76)

\* output[i] = data[i] ^ key[i % key.length] ^ nonce[i % nonce.length]
chacha20(key, nonce, data) ==
  [i \in DOMAIN data |->
     Xor(Xor(data[i], key[((i - 1) % Len(key)) + 1]), nonce[((i - 1) % Len(nonce)) + 1])]

calcPadding_NoMinimumChunk(len) ==
  IF len <= 32 THEN 32
  ELSE LET RECURSIVE FloorLog2(_)
           FloorLog2(n) == IF n <= 1 THEN 0 ELSE 1 + FloorLog2(n \div 2)
           nextPower == 2^(FloorLog2(len - 1) + 1)
           chunk == nextPower \div 8 IN
       chunk * (((len - 1) \div chunk) + 1)

calcPadding(len) ==
  IF len <= 32 THEN 32
  ELSE LET RECURSIVE FloorLog2(_)
           FloorLog2(n) == IF n <= 1 THEN 0 ELSE 1 + FloorLog2(n \div 2)
           nextPower == 2^(FloorLog2(len - 1) + 1)
           chunk == IF nextPower <= 256 THEN 32 ELSE nextPower \div 8 IN
       chunk * (((len - 1) \div chunk) + 1)

\* padded[0] = (plaintextLen >> 8) & 0xff; padded[1] = plaintextLen & 0xff
LengthPrefix(plaintextLen) == <<(plaintextLen \div 256) % 256, plaintextLen % 256>>

\* a plaintext is the sequence of its UTF-8 bytes
pad(plaintext) ==
  LET plaintextLen == Len(plaintext) IN
  IF plaintextLen < MIN_PLAINTEXT_SIZE \/ plaintextLen > MAX_PLAINTEXT_SIZE
  THEN Err("Invalid plaintext length")
  ELSE Ok(LengthPrefix(plaintextLen) \o plaintext \o
          [i \in 1..(calcPadding(plaintextLen) - plaintextLen) |-> 0])

unpad_FromStart(padded) ==
  LET len == padded[1] * 256 + padded[2] IN
  IF len < MIN_PLAINTEXT_SIZE \/ len > MAX_PLAINTEXT_SIZE \/ len > Len(padded) - 2
  THEN Err("Invalid padding")
  ELSE Ok(SubSeq(padded, 1, len))

unpad(padded) ==
  LET len == padded[1] * 256 + padded[2] IN
  IF len < MIN_PLAINTEXT_SIZE \/ len > MAX_PLAINTEXT_SIZE \/ len > Len(padded) - 2
  THEN Err("Invalid padding")
  ELSE Ok(SubSeq(padded, 3, 2 + len))

\* btoa(String.fromCharCode(...payload)) and its inverse
\* Uint8Array.from(atob(ciphertext), c => c.charCodeAt(0)): the base64 text is
\* written as the bytes it encodes
btoa(payload) == [base64 |-> payload]
atob(ciphertext) == ciphertext.base64

\* the lines of encrypt after pad(plaintext): the cipher, the MAC, the payload
Seal(padded, conversationKey, nonceBytes) ==
  LET chachaKey == SubSeq(conversationKey, 1, 32)
      chachaNonce == SubSeq(conversationKey, 33, 44)
      hmacKey == SubSeq(conversationKey, 45, 76)
      finalNonce == [i \in 1..12 |-> Xor(chachaNonce[i], nonceBytes[i])]
      ciphertext == chacha20(chachaKey, finalNonce, padded)
      mac == hmacSha256(hmacKey, nonceBytes \o ciphertext) IN
  btoa(<<VERSION>> \o nonceBytes \o ciphertext \o mac)

\* encrypt(plaintext, conversationKey, nonce) on bytes
encryptPayload(plaintext, conversationKey, nonce) ==
  IF ~pad(plaintext).ok THEN pad(plaintext)
  ELSE Ok(Seal(pad(plaintext).value, conversationKey, nonce))

\* the constant-time comparison of the 32 MAC bytes
MacMatch_First(mac, expectedMac) == mac[1] = expectedMac[1]

MacMatch(mac, expectedMac) == \A i \in 1..32 : mac[i] = expectedMac[i]

\* decrypt(ciphertext, conversationKey) on bytes
decryptPayload_MacFirst(ciphertext, conversationKey) ==
  LET payload == atob(ciphertext)
      nonceBytes == SubSeq(payload, 2, 33)
      encrypted == SubSeq(payload, 34, Len(payload) - 32)
      mac == SubSeq(payload, Len(payload) - 31, Len(payload))
      chachaKey == SubSeq(conversationKey, 1, 32)
      chachaNonce == SubSeq(conversationKey, 33, 44)
      hmacKey == SubSeq(conversationKey, 45, 76)
      finalNonce == [i \in 1..12 |-> Xor(chachaNonce[i], nonceBytes[i])] IN
  IF ~MacMatch(mac, hmacSha256(hmacKey, nonceBytes \o encrypted)) THEN Err("Invalid MAC")
  ELSE IF payload[1] # VERSION THEN Err("Unsupported encryption version")
  ELSE unpad(chacha20(chachaKey, finalNonce, encrypted))

decryptPayload(ciphertext, conversationKey) ==
  LET payload == atob(ciphertext)
      nonceBytes == SubSeq(payload, 2, 33)
      encrypted == SubSeq(payload, 34, Len(payload) - 32)
      mac == SubSeq(payload, Len(payload) - 31, Len(payload))
      chachaKey == SubSeq(conversationKey, 1, 32)
      chachaNonce == SubSeq(conversationKey, 33, 44)
      hmacKey == SubSeq(conversationKey, 45, 76)
      finalNonce == [i \in 1..12 |-> Xor(chachaNonce[i], nonceBytes[i])] IN
  IF payload[1] # VERSION THEN Err("Unsupported encryption version")
  ELSE IF ~MacMatch(mac, hmacSha256(hmacKey, nonceBytes \o encrypted)) THEN Err("Invalid MAC")
  ELSE unpad(chacha20(chachaKey, finalNonce, encrypted))

\* no library function is in use
NoLib == [family |-> "none"]

\* ------------------------------------------------------------------------
\* Connection URIs
\* ------------------------------------------------------------------------
Scheme == "nostr+walletconnect://"

Uri(scheme, pubkey, relay, secret) ==
  [scheme |-> scheme, pubkey |-> pubkey, relay |-> relay, secret |-> secret]

UriA == Uri(Scheme, "w1", "wss://r1", "s1")
UriNoSecret == Uri(Scheme, "w1", "wss://r1", NULL)
UriBadScheme == Uri("https://", "w1", "wss://r1", "s1")
UriBadRelay == Uri(Scheme, "w1", "notaurl", "s1")
UriBadSecret == Uri(Scheme, "w1", "wss://r1", "zz")

URIs == {UriA, UriNoSecret, UriBadScheme, UriBadRelay, UriBadSecret}

parseConnectionUri(uri) ==
  IF uri.scheme # Scheme THEN None
  ELSE IF uri.pubkey = "" \/ (uri.relay = NULL /\ uri.secret = NULL) THEN None
  ELSE IF uri.relay = NULL \/ uri.relay = "" \/ uri.secret = NULL \/ uri.secret = "" THEN None
  ELSE Some([walletPubkey |-> uri.pubkey, relay |-> uri.relay, secret |-> uri.secret])

\* new WebSocket(url) throws a SyntaxError on a string that is not a ws(s) URL
WebSocketAccepts(url) == url = "wss://r1"

\* ------------------------------------------------------------------------
\* Payloads of the wallet service
\* ------------------------------------------------------------------------
\* the result the wallet service carries in its answer to request e
Result(e) == [methods |-> <<"pay_invoice", "get_balance">>, balance |-> 1000 + e]

\* decrypted text of a response to request e: a result, an error, text that
\* is not JSON, or the JSON text `null`
ResultPlain(e) == [json |-> TRUE, isNull |-> FALSE, hasError |-> FALSE, result |-> Result(e)]
ErrorPlain(e) == [json |-> TRUE, isNull |-> FALSE, hasError |-> TRUE, result |-> Result(e)]
NotJsonPlain(e) == [json |-> FALSE, isNull |-> FALSE, hasError |-> FALSE, result |-> Result(e)]
NullPlain(e) == [json |-> TRUE, isNull |-> TRUE, hasError |-> FALSE, result |-> Result(e)]

Methods == {"pay_invoice", "get_balance", "get_info"}

FrameClasses == {"result", "error", "notjson", "null", "tampered", "badversion", "badpadding",
                 "foreign", "untagged", "notification", "badnotification", "info",
                 "other"}

\* What the environment does in one exploration. Each scenario bounds the
\* calls and events of a run and names the inputs they are drawn from.
Scenario(channels, sends, disconnects, errors, uris, methods, frames) ==
  [channels |-> channels, sends |-> sends, jobs |-> MaxJobs,
   disconnects |-> disconnects, errors |-> errors, uris |-> uris,
   methods |-> methods, frames |-> frames, stored |-> {None},
   unmount |-> FALSE, keysend |-> FALSE]

\* one connection, concurrent requests, answered or not
Concurrent ==
  Scenario(1, MaxRequests, MaxDisconnects, 0, {UriA}, {"pay_invoice", "get_balance"},
           {"result", "error"})
\* one connection, every input and every kind of inbound frame
Inputs ==
  Scenario(1, 1, MaxDisconnects, MaxErrors, URIs, Methods, FrameClasses)
\* disconnect() and a new connection
Reconnect ==
  Scenario(MaxChannels, 1, MaxDisconnects, 0, {UriA, UriNoSecret}, {"get_balance"},
           {"result"})
\* a failing channel and a new connection
Recover ==
  Scenario(MaxChannels, 1, 0, MaxErrors, {UriA, UriNoSecret}, {"get_balance"},
           {"result"})

\* a descriptor left in the storage slot by an earlier session
Restore ==
  [Scenario(MaxChannels, 1, 0, MaxErrors, {UriA}, {"get_balance"}, {"result"})
     EXCEPT !.stored = {Some(UriA), Some(UriBadScheme), Some(UriBadRelay)}]

\* a restored connection and the unmount of the component
Unmount ==
  [Scenario(1, 1, 0, MaxErrors, {UriA}, {"get_balance"}, {"result"})
     EXCEPT !.stored = {Some(UriA)}, !.unmount = TRUE]

\* a keysend payment, to a wallet service that announces pay_keysend or not
Keysend ==
  [Scenario(1, 1, 0, 0, {UriA}, {}, {"info", "keysendinfo"}) EXCEPT !.keysend = TRUE]

\* requests and a relay that answers them, answers with a Response that does
\* not decrypt or carries no "e" tag, fails, closes the channel, or is silent
Settle ==
  Scenario(1, MaxRequests, MaxDisconnects, MaxErrors, {UriA}, {"get_balance"},
           {"result", "null", "tampered", "untagged"})

Scenarios == {Concurrent, Inputs, Reconnect, Recover, Restore, Unmount, Keysend, Settle}

VARIABLES
  scenario,             \* the bounds of this exploration (never changes)
  connectionState,      \* useState<NWCConnectionState>
  wsRef,                \* wsRef.current: channel index, 0 = null
  connectionParamsRef,  \* None or Some(params)
  subscriptionIdRef,    \* subscription id, 0 = null
  connectionUriRef,     \* None or Some(uri)
  localStorage,         \* slot NWC_STORAGE_KEY: None or Some(uri)
  pendingRequests,      \* Map: event id -> [call, timeout |-> timer handle]
  timers,               \* scheduled setTimeout callbacks: handle -> [delay, id]
  channels,             \* WebSocket objects created so far, in creation order
  calls,                \* request promises created so far, in creation order
  jobs,                 \* handleMessage invocations awaiting decryptMessage
  disconnects,          \* number of disconnect() calls so far
  restoring,            \* restoreConnection: -1 = not run yet, 0 = made no
                        \* channel, c = it awaits connect() on channel c
  dispatched,           \* details of the 'nwc:notification' events dispatched
  mounted,              \* the component that uses the hook is mounted
  keysends,             \* the calls of sendKeysendPayment so far: what each was
                        \* given, what it threw, the request it issued
  lib                   \* a use of the library functions (lib/crypto.ts,
                        \* lib/nip44.ts): its inputs, its step, its results

hookVars == <<scenario, connectionState, wsRef, connectionParamsRef, subscriptionIdRef,
              connectionUriRef, localStorage, pendingRequests, timers, channels,
              calls, jobs, disconnects, restoring, dispatched, mounted, keysends>>

vars == <<scenario, connectionState, wsRef, connectionParamsRef, subscriptionIdRef,
          connectionUriRef, localStorage, pendingRequests, timers, channels,
          calls, jobs, disconnects, restoring, dispatched, mounted, keysends, lib>>

\* the state of the hook itself
hookCore == <<connectionState, wsRef, connectionParamsRef, subscriptionIdRef,
              connectionUriRef, localStorage, pendingRequests, timers, channels,
              calls, jobs, disconnects, dispatched>>

EmptyMap == [x \in {} |-> 0]

State(status, walletPubkey, relay, error) ==
  [status |-> status, walletPubkey |-> walletPubkey, relay |-> relay,
   capabilities |-> None, balance |-> None, error |-> error]

Init ==
  /\ scenario \in Scenarios
  /\ connectionState = State(DISCONNECTED, NULL, NULL, NULL)
  /\ wsRef = 0
  /\ connectionParamsRef = None
  /\ subscriptionIdRef = 0
  /\ connectionUriRef = None
  /\ localStorage \in scenario.stored
  /\ pendingRequests = EmptyMap
  /\ timers = EmptyMap
  /\ channels = <<>>
  /\ calls = <<>>
  /\ jobs = <<>>
  /\ disconnects = 0
  /\ restoring = -1
  /\ dispatched = {}
  /\ mounted = TRUE
  /\ keysends = <<>>
  /\ lib = NoLib

\* ------------------------------------------------------------------------
\* Helpers
\* ------------------------------------------------------------------------
Without(f, k) == [x \in DOMAIN f \ {k} |-> f[x]]
With(f, k, v) == [x \in DOMAIN f \cup {k} |-> IF x = k THEN v ELSE f[x]]
RemoveAt(s, i) == SubSeq(s, 1, i - 1) \o SubSeq(s, i + 1, Len(s))

Reject(msg) == [type |-> "reject", error |-> msg, value |-> Result(0)]
Resolve(result) == [type |-> "resolve", error |-> NULL, value |-> result]

Building(r) == ~calls[r].registered /\ calls[r].settles = <<>>

\* ws.send(frame): queued on an OPEN socket, silently discarded on a closing
\* or closed one
wsSend(chs, c, frame) ==
  IF chs[c].readyState = "OPEN"
  THEN [chs EXCEPT ![c].sent = Append(@, frame)]
  ELSE chs

\* ws.close(): starts the closing handshake of an open or connecting socket
wsClose(chs, c) ==
  IF chs[c].readyState \in {"CONNECTING", "OPEN"}
  THEN [chs EXCEPT ![c].readyState = "CLOSING"]
  ELSE chs

\* The request event built by sendRequest / tempSendRequest
RequestEvent(nonce, method, secret, walletPubkey) ==
  LET content == encryptMessage([method |-> method], secret, walletPubkey, nonce)
      pubkey == getPublicKey(secret)[1]
      tags == <<<<"p", walletPubkey>>>> IN
  [id |-> generateEventId(pubkey, Now, REQUEST, tags, content), kind |-> REQUEST,
   pubkey |-> pubkey, created_at |-> Now, tags |-> tags, content |-> content]

\* a table entry { resolve, reject, timeout }: the promise of call r and the
\* handle of its timer
Entry(r) == [call |-> r, timeout |-> r]

\* a scheduled timer callback and the event id its closure holds
Timer(timer, id) == [delay |-> timer.delay, id |-> id]

\* the calls whose promise the pending table holds
PendingCalls == {pendingRequests[id].call : id \in DOMAIN pendingRequests}

\* resolve / reject of the promise of call r with outcome o, for every r in S:
\* a promise keeps its first settlement
SettledCalls(cs, S, o) ==
  [r \in DOMAIN cs |->
     IF r \in S
     THEN [cs[r] EXCEPT !.settles = Append(@, o), !.method = NULL,
                        !.walletPubkey = NULL, !.secret = NULL]
     ELSE cs[r]]

\* number of sendRequest calls made so far
Sends == Cardinality({r \in DOMAIN calls : calls[r].src = "sendRequest"})

\* continuation of getBalance / getInfo / the startup probe after `await`
StateAfter(st, r, o) ==
  IF calls[r].settles # <<>> \/ o.type # "resolve" THEN st
  ELSE IF calls[r].method = "get_balance"
       THEN [st EXCEPT !.balance = Some(o.value.balance)]
  ELSE IF calls[r].method = "get_info"
       THEN [st EXCEPT !.capabilities = Some(o.value.methods)]
  ELSE st

\* the startup probe never fails connect(): its promise resolves either way
ProbeDone_Never(chs, S) == chs

ProbeDone(chs, S) ==
  [c \in DOMAIN chs |->
     IF /\ chs[c].promise = "pending"
        /\ \E r \in S : calls[r].src = "probe" /\ calls[r].ws = c /\ calls[r].settles = <<>>
     THEN [chs[c] EXCEPT !.promise = "resolved"]
     ELSE chs[c]]

\* ------------------------------------------------------------------------
\* connect(connectionUri)
\* ------------------------------------------------------------------------
\* the WebSocket created by connect() with its handlers and its promise
NewChannel(params) ==
  [params |-> params, readyState |-> "CONNECTING", errorFired |-> FALSE,
   closeFired |-> FALSE, sent |-> <<>>, promise |-> "pending"]

connect(uri) ==
  LET parsed == parseConnectionUri(uri) IN
  IF parsed = None
  THEN \* throw new Error('Invalid NWC connection URI'): nothing was touched
       UNCHANGED vars
  ELSE LET params == parsed[1] IN
       /\ connectionUriRef' = Some(uri)
       /\ localStorage' = Some(uri)
       /\ IF WebSocketAccepts(params.relay)
          THEN /\ Len(channels) < scenario.channels
               /\ connectionState' = State(CONNECTING, params.walletPubkey, params.relay, NULL)
               /\ channels' = Append(channels, NewChannel(params))
          ELSE \* new WebSocket throws: the catch block rejects the promise
               /\ connectionState' = State(ERROR, NULL, NULL, "SyntaxError")
               /\ UNCHANGED channels
       /\ UNCHANGED <<wsRef, connectionParamsRef, subscriptionIdRef, pendingRequests,
                      timers, calls, jobs, disconnects, restoring,
                      dispatched>>

\* ------------------------------------------------------------------------
\* restoreConnection(): the mount effect, up to `await connect(savedUri)`
\* ------------------------------------------------------------------------
restoreConnection ==
  LET parsed == parseConnectionUri(localStorage[1]) IN
  /\ restoring = -1
  /\ IF localStorage = None \/ connectionState.status # DISCONNECTED
     THEN /\ restoring' = 0
          /\ UNCHANGED <<connectionState, connectionUriRef, localStorage, channels>>
     ELSE IF parsed = None
     THEN \* connect() throws; catch: localStorage.removeItem
          /\ restoring' = 0
          /\ localStorage' = None
          /\ UNCHANGED <<connectionState, connectionUriRef, channels>>
     ELSE IF WebSocketAccepts(parsed[1].relay)
     THEN /\ restoring' = Len(channels) + 1
          /\ connectionUriRef' = localStorage
          /\ connectionState' =
               State(CONNECTING, parsed[1].walletPubkey, parsed[1].relay, NULL)
          /\ channels' = Append(channels, NewChannel(parsed[1]))
          /\ UNCHANGED localStorage
     ELSE \* new WebSocket throws, connect() rejects; catch: removeItem
          /\ restoring' = 0
          /\ connectionUriRef' = localStorage
          /\ connectionState' = State(ERROR, NULL, NULL, "SyntaxError")
          /\ localStorage' = None
          /\ UNCHANGED channels
  /\ UNCHANGED <<wsRef, connectionParamsRef, subscriptionIdRef, pendingRequests,
                 timers, calls, jobs, disconnects, dispatched>>

\* ------------------------------------------------------------------------
\* ws.onopen, up to the first await of the startup probe
\* ------------------------------------------------------------------------
SubscriptionFilter(params) ==
  [kinds |-> <<RESPONSE, NOTIFICATION, INFO>>,
   authors |-> <<params.walletPubkey>>,
   p |-> <<getPublicKey(params.secret)[1]>>]

\* ws.send(JSON.stringify(['REQ', subscriptionId, filter]))
Subscribe_Skip(chs, c, params) == chs

Subscribe(chs, c, params) ==
  wsSend(chs, c, [type |-> "REQ", sub |-> c, filter |-> SubscriptionFilter(params)])

onopen(c) ==
  LET params == channels[c].params
      opened == [channels EXCEPT ![c].readyState = "OPEN"] IN
  /\ channels[c].readyState = "CONNECTING"
  /\ subscriptionIdRef' = c
  /\ IF getPublicKey(params.secret) = None
     THEN \* getPublicKey throws while the filter is built: the handler ends
          /\ channels' = opened
          /\ UNCHANGED <<connectionState, wsRef, connectionParamsRef, calls>>
     ELSE /\ channels' = Subscribe(opened, c, params)
          /\ connectionParamsRef' = Some(params)
          /\ wsRef' = c
          /\ connectionState' = State(CONNECTED, params.walletPubkey, params.relay, NULL)
          /\ calls' = Append(calls,
                        [src |-> "probe", method |-> "get_info",
                         walletPubkey |-> params.walletPubkey, secret |-> params.secret,
                         ws |-> c, epoch |-> disconnects,
                         status |-> CONNECTED, registered |-> FALSE,
                         sentOn |-> 0, id |-> NoId, settles |-> <<>>])
  /\ UNCHANGED <<connectionUriRef, localStorage, pendingRequests, timers, jobs,
                 disconnects, dispatched>>

\* setTimeout(..., 10000) of the startup probe
ProbeTimer == [delay |-> InfoTimeoutMs]

\* the Promise executor of tempSendRequest, after encrypting and signing
tempSendRequest(r) ==
  LET c == calls[r].ws
      event == RequestEvent(r, calls[r].method, calls[r].secret, calls[r].walletPubkey) IN
  /\ calls[r].src = "probe"
  /\ Building(r)
  /\ IF channels[c].readyState # "OPEN"
     THEN /\ calls' = SettledCalls(calls, {r}, Reject("WebSocket not connected"))
          /\ channels' = ProbeDone(channels, {r})
          /\ UNCHANGED <<pendingRequests, timers>>
     ELSE /\ timers' = With(timers, r, Timer(ProbeTimer, event.id))
          /\ pendingRequests' = With(pendingRequests, event.id, Entry(r))
          /\ channels' = wsSend(channels, c, [type |-> "EVENT", event |-> event])
          /\ calls' = [calls EXCEPT ![r].registered = TRUE, ![r].sentOn = c,
                                       ![r].id = event.id]
  /\ UNCHANGED <<connectionState, wsRef, connectionParamsRef, subscriptionIdRef,
                 connectionUriRef, localStorage, jobs, disconnects, dispatched>>

\* ------------------------------------------------------------------------
\* sendRequest(method, params)
\* ------------------------------------------------------------------------
\* the synchronous prologue, up to the first await; ws records the channel
\* that is current at the call (the code keeps only walletPubkey and secret)
sendRequestCall(method) ==
  /\ Sends < scenario.sends
  /\ IF connectionParamsRef = None \/ wsRef = 0
     THEN calls' = Append(calls,
                     [src |-> "sendRequest", method |-> NULL,
                      walletPubkey |-> NULL, secret |-> NULL,
                      ws |-> 0, epoch |-> disconnects,
                      status |-> connectionState.status, registered |-> FALSE,
                      sentOn |-> 0, id |-> NoId, settles |-> <<Reject("Not connected to NWC")>>])
     ELSE calls' = Append(calls,
                     [src |-> "sendRequest", method |-> method,
                      walletPubkey |-> connectionParamsRef[1].walletPubkey,
                      secret |-> connectionParamsRef[1].secret,
                      ws |-> wsRef, epoch |-> disconnects,
                      status |-> connectionState.status, registered |-> FALSE,
                      sentOn |-> 0, id |-> NoId, settles |-> <<>>])
  /\ UNCHANGED <<connectionState, wsRef, connectionParamsRef, subscriptionIdRef,
                 connectionUriRef, localStorage, pendingRequests, timers, channels,
                 jobs, disconnects, dispatched>>

\* setTimeout(..., 30000) of sendRequest
RequestTimer_Info == [delay |-> InfoTimeoutMs]

RequestTimer == [delay |-> RequestTimeoutMs]

\* the Promise executor, after encrypting and signing
sendRequest(r) ==
  LET event == RequestEvent(r, calls[r].method, calls[r].secret, calls[r].walletPubkey) IN
  /\ calls[r].src = "sendRequest"
  /\ Building(r)
  /\ IF wsRef = 0 \/ channels[wsRef].readyState # "OPEN"
     THEN /\ calls' = SettledCalls(calls, {r}, Reject("WebSocket not connected"))
          /\ UNCHANGED <<pendingRequests, timers, channels>>
     ELSE /\ timers' = With(timers, r, Timer(RequestTimer, event.id))
          /\ pendingRequests' = With(pendingRequests, event.id, Entry(r))
          /\ channels' = wsSend(channels, wsRef, [type |-> "EVENT", event |-> event])
          /\ calls' = [calls EXCEPT ![r].registered = TRUE, ![r].sentOn = wsRef,
                                       ![r].id = event.id]
  /\ UNCHANGED <<connectionState, wsRef, connectionParamsRef, subscriptionIdRef,
                 connectionUriRef, localStorage, jobs, disconnects, dispatched>>

\* ------------------------------------------------------------------------
\* Request timers
\* ------------------------------------------------------------------------
\* pendingRequestsRef.current.delete(id) in the timer callback
TimeoutPending(h) == Without(pendingRequests, timers[h].id)

\* the setTimeout callback of request h
onTimeout(h) ==
  /\ h \in DOMAIN timers
  /\ timers' = Without(timers, h)
  /\ pendingRequests' = TimeoutPending(h)
  /\ calls' = SettledCalls(calls, {h}, Reject("Request timeout"))
  /\ channels' = ProbeDone(channels, {h})
  /\ UNCHANGED <<connectionState, wsRef, connectionParamsRef, subscriptionIdRef,
                 connectionUriRef, localStorage, jobs, disconnects, dispatched>>

\* ------------------------------------------------------------------------
\* Frames delivered by the relay
\* ------------------------------------------------------------------------
NoBlob == [version |-> 0, nonce |-> 0, ck |-> {}, intact |-> FALSE, padded |-> FALSE, plain |-> NotJsonPlain(0)]

\* the conversation key of the wallet service behind channel c
ChannelKey(c) ==
  WalletConversationKey(channels[c].params.walletPubkey,
                        getPublicKey(channels[c].params.secret)[1])

InfoText == <<"pay_invoice", "", "get_balance">>

Frame(type, kind, e, content, text) ==
  [type |-> type, kind |-> kind, e |-> e, content |-> content, text |-> text]

\* frames of one class the relay can deliver on channel c, as the wallet
\* service behind c produces them; e = NoId: the event has no "e" tag; the
\* answer to a request depends on the call it belongs to
FramesOf(c, class) ==
  LET k == ChannelKey(c)
      tagged == DOMAIN pendingRequests IN
  IF class = "result"
  THEN {Frame("EVENT", RESPONSE, e,
              encrypt(ResultPlain(pendingRequests[e].call), k, 0), <<>>) : e \in tagged}
  ELSE IF class = "error"
  THEN {Frame("EVENT", RESPONSE, e,
              encrypt(ErrorPlain(pendingRequests[e].call), k, 0), <<>>) : e \in tagged}
  ELSE IF class = "notjson"
  THEN {Frame("EVENT", RESPONSE, e,
              encrypt(NotJsonPlain(pendingRequests[e].call), k, 0), <<>>) : e \in tagged}
  ELSE IF class = "null"
  THEN {Frame("EVENT", RESPONSE, e,
              encrypt(NullPlain(pendingRequests[e].call), k, 0), <<>>) : e \in tagged}
  ELSE IF class = "tampered"
  THEN {Frame("EVENT", RESPONSE, e,
              [encrypt(ResultPlain(pendingRequests[e].call), k, 0) EXCEPT !.intact = FALSE], <<>>) :
          e \in tagged}
  ELSE IF class = "badversion"
  THEN {Frame("EVENT", RESPONSE, e,
              [encrypt(ResultPlain(pendingRequests[e].call), k, 0) EXCEPT !.version = 1], <<>>) :
          e \in tagged}
  ELSE IF class = "badpadding"
  THEN {Frame("EVENT", RESPONSE, e,
              [encrypt(ResultPlain(pendingRequests[e].call), k, 0) EXCEPT !.padded = FALSE], <<>>) :
          e \in tagged}
  ELSE IF class = "foreign"
  THEN {Frame("EVENT", RESPONSE, e,
              encrypt(ResultPlain(pendingRequests[e].call), {"w1"}, 0), <<>>) : e \in tagged}
  ELSE IF class = "untagged"
  THEN {Frame("EVENT", RESPONSE, NoId, encrypt(ResultPlain(0), k, 0), <<>>)}
  ELSE IF class = "notification"
  THEN {Frame("EVENT", NOTIFICATION, e, encrypt(ResultPlain(0), k, 0), <<>>) : e \in tagged}
  ELSE IF class = "badnotification"
  THEN {Frame("EVENT", NOTIFICATION, e,
              [encrypt(ResultPlain(0), k, 0) EXCEPT !.intact = FALSE], <<>>) : e \in tagged}
  ELSE IF class = "info"
  THEN {Frame("EVENT", INFO, NoId, NoBlob, InfoText)}
  ELSE IF class = "keysendinfo"
  THEN {Frame("EVENT", INFO, NoId, NoBlob, <<"pay_invoice", "pay_keysend">>)}
  ELSE {Frame(t, 0, NoId, NoBlob, <<>>) : t \in {"EOSE", "OK", "NOTICE", "garbage"}}

InboundFrames(c) ==
  IF getPublicKey(channels[c].params.secret) = None THEN {}
  ELSE UNION {FramesOf(c, class) : class \in scenario.frames}

\* content.split(' ').filter(Boolean)
RECURSIVE FilterBoolean(_)
FilterBoolean(tokens) ==
  IF tokens = <<>> THEN <<>>
  ELSE IF Head(tokens) = "" THEN FilterBoolean(Tail(tokens))
  ELSE <<Head(tokens)>> \o FilterBoolean(Tail(tokens))

\* ------------------------------------------------------------------------
\* handleMessage(event): up to the await of decryptMessage
\* ------------------------------------------------------------------------
\* setConnectionState(prev => ({...prev, capabilities: methods}))
InfoState_Reset(f) ==
  [State(CONNECTED, NULL, NULL, NULL) EXCEPT !.capabilities = Some(FilterBoolean(f.text))]

InfoState(f) ==
  [connectionState EXCEPT !.capabilities = Some(FilterBoolean(f.text))]

handleMessage(c, f) ==
  /\ channels[c].readyState \in {"OPEN", "CLOSING"}
  /\ IF f.type = "EVENT" /\ f.kind \in {RESPONSE, NOTIFICATION} /\ connectionParamsRef # None
     THEN /\ Len(jobs) < scenario.jobs
          /\ jobs' = Append(jobs, [kind |-> f.kind, content |-> f.content, e |-> f.e,
                                   walletPubkey |-> connectionParamsRef[1].walletPubkey,
                                   secret |-> connectionParamsRef[1].secret])
          /\ UNCHANGED connectionState
     ELSE IF f.type = "EVENT" /\ f.kind = INFO
     THEN /\ connectionState' = InfoState(f)
          /\ UNCHANGED jobs
     ELSE UNCHANGED <<connectionState, jobs>>
  /\ UNCHANGED <<wsRef, connectionParamsRef, subscriptionIdRef, connectionUriRef,
                 localStorage, pendingRequests, timers, channels, calls,
                 disconnects, dispatched>>

\* tags.find(t => t[0] === 'e')[1]
eTag(job) == job.e

\* clearTimeout(pending.timeout)
ResponseTimers(requestId) == Without(timers, pendingRequests[requestId].timeout)

\* if (kind === NWCEventKind.RESPONSE)
IsResponse_Any(kind) == TRUE

IsResponse(kind) == kind = RESPONSE

\* handleMessage after the await: decrypt, parse, correlate, settle
handleDecrypted(j) ==
  LET job == jobs[j]
      dec == decryptMessage(job.content, job.secret, job.walletPubkey)
      requestId == eTag(job)
      call == pendingRequests[requestId].call
      o == IF dec[1].hasError
           THEN Reject("INSUFFICIENT_BALANCE: no funds")
           ELSE Resolve(dec[1].result) IN
  /\ j \in DOMAIN jobs
  /\ jobs' = RemoveAt(jobs, j)
  /\ IF dec = None \/ ~dec[1].json
     THEN UNCHANGED <<connectionState, pendingRequests, timers, channels, calls,
                      dispatched>>
     ELSE IF IsResponse(job.kind)
     THEN /\ UNCHANGED dispatched
          /\ IF requestId # NoId /\ requestId \in DOMAIN pendingRequests
             THEN /\ timers' = ResponseTimers(requestId)
                  /\ pendingRequests' = Without(pendingRequests, requestId)
                  /\ IF dec[1].isNull
                     THEN \* response.error throws a TypeError on null; the catch
                          \* block logs it: neither resolve nor reject is called
                          UNCHANGED <<connectionState, channels, calls>>
                     ELSE /\ calls' = SettledCalls(calls, {call}, o)
                          /\ connectionState' = StateAfter(connectionState, call, o)
                          /\ channels' = ProbeDone(channels, {call})
             ELSE UNCHANGED <<connectionState, pendingRequests, timers, channels, calls>>
     ELSE \* window.dispatchEvent(new CustomEvent('nwc:notification', ...))
          /\ dispatched' = dispatched \cup {dec[1]}
          /\ UNCHANGED <<connectionState, pendingRequests, timers, channels, calls>>
  /\ UNCHANGED <<wsRef, connectionParamsRef, subscriptionIdRef, connectionUriRef,
                 localStorage, disconnects>>

\* ------------------------------------------------------------------------
\* disconnect()
\* ------------------------------------------------------------------------
\* clearTimeout(timeout) for every entry of the table
DisconnectTimers_Leak == timers

DisconnectTimers ==
  [h \in DOMAIN timers \ {pendingRequests[id].timeout : id \in DOMAIN pendingRequests}
     |-> timers[h]]

disconnect ==
  LET closed ==
        IF wsRef = 0 THEN channels
        ELSE wsClose(IF subscriptionIdRef # 0
                     THEN wsSend(channels, wsRef, [type |-> "CLOSE", sub |-> subscriptionIdRef])
                     ELSE channels, wsRef) IN
  /\ disconnects < scenario.disconnects
  /\ disconnects' = disconnects + 1
  /\ wsRef' = 0
  /\ timers' = DisconnectTimers
  /\ calls' = SettledCalls(calls, PendingCalls, Reject("Disconnected"))
  /\ channels' = ProbeDone(closed, PendingCalls)
  /\ pendingRequests' = EmptyMap
  /\ connectionParamsRef' = None
  /\ subscriptionIdRef' = 0
  /\ connectionUriRef' = None
  /\ localStorage' = None
  /\ connectionState' = State(DISCONNECTED, NULL, NULL, NULL)
  /\ UNCHANGED <<jobs, dispatched>>

\* ------------------------------------------------------------------------
\* ws.onerror / ws.onclose
\* ------------------------------------------------------------------------
\* the connection fails: the socket is closed, an error event is dispatched
\* and a close event follows
\* setConnectionState({status: ERROR, error: 'WebSocket connection error'})
ErrorState_Disconnected == State(DISCONNECTED, NULL, NULL, "WebSocket connection error")

ErrorState == State(ERROR, NULL, NULL, "WebSocket connection error")

\* catch block of restoreConnection, run when the promise it awaits rejects
RestoreFailed_Keep(c) == localStorage

RestoreFailed_Always(c) == None

RestoreFailed(c) ==
  IF restoring = c /\ channels[c].promise = "pending" THEN None ELSE localStorage

onerror(c) ==
  /\ channels[c].readyState \in {"CONNECTING", "OPEN", "CLOSING"}
  /\ Cardinality({d \in DOMAIN channels : channels[d].errorFired}) < scenario.errors
  /\ channels' = [channels EXCEPT ![c].readyState = "CLOSED", ![c].errorFired = TRUE,
                                  ![c].promise = IF @ = "pending" THEN "rejected" ELSE @]
  /\ connectionState' = ErrorState
  /\ localStorage' = RestoreFailed(c)
  /\ UNCHANGED <<wsRef, connectionParamsRef, subscriptionIdRef, connectionUriRef,
                 pendingRequests, timers, calls, jobs, disconnects, dispatched>>

onclose(c) ==
  /\ ~channels[c].closeFired
  /\ channels[c].readyState \in {"OPEN", "CLOSING", "CLOSED"}
  /\ channels' = [channels EXCEPT ![c].readyState = "CLOSED", ![c].closeFired = TRUE]
  /\ connectionState' = State(DISCONNECTED, NULL, NULL, NULL)
  /\ UNCHANGED <<wsRef, connectionParamsRef, subscriptionIdRef, connectionUriRef,
                 localStorage, pendingRequests, timers, calls, jobs, disconnects, dispatched>>

\* ------------------------------------------------------------------------
\* The cleanup of the unmount effect
\* ------------------------------------------------------------------------
unmount ==
  /\ scenario.unmount
  /\ mounted
  /\ mounted' = FALSE
  /\ IF wsRef # 0
     THEN /\ channels' =
               wsClose(IF subscriptionIdRef # 0
                       THEN wsSend(channels, wsRef, [type |-> "CLOSE", sub |-> subscriptionIdRef])
                       ELSE channels, wsRef)
          /\ wsRef' = 0
     ELSE UNCHANGED <<channels, wsRef>>
  /\ UNCHANGED <<connectionState, connectionParamsRef, subscriptionIdRef, connectionUriRef,
                 localStorage, pendingRequests, timers, calls, jobs, disconnects,
                 restoring, dispatched, keysends>>

\* ------------------------------------------------------------------------
\* sendKeysendPayment(nwc, _recipientPubkey, amount) (lib/payments.ts), up to
\* the first await of the sendRequest it reaches through nwc.payInvoice
\* ------------------------------------------------------------------------
sendKeysendPayment(recipientPubkey, amount) ==
  LET capabilities == connectionState.capabilities
      given == [recipientPubkey |-> recipientPubkey, amount |-> amount] IN
  /\ scenario.keysend
  /\ mounted
  /\ Len(keysends) < scenario.sends
  /\ IF connectionState.status # CONNECTED
     THEN /\ keysends' = Append(keysends, [given |-> given, request |-> None,
                                           threw |-> "NWC wallet not connected"])
          /\ UNCHANGED hookCore
     ELSE IF capabilities = None \/
             ~\E i \in DOMAIN capabilities[1] : capabilities[1][i] = "pay_keysend"
     THEN /\ keysends' = Append(keysends, [given |-> given, request |-> None,
                                           threw |-> "Wallet does not support keysend payments"])
          /\ UNCHANGED hookCore
     ELSE \* nwc.payInvoice({invoice: '', amount: amount * 1000, metadata})
          /\ keysends' =
               Append(keysends,
                      [given |-> given, threw |-> NULL,
                       request |-> Some([method |-> "pay_invoice", call |-> Len(calls) + 1,
                                         params |-> [invoice |-> "", amount |-> amount * 1000]])])
          /\ sendRequestCall("pay_invoice")
  /\ UNCHANGED <<restoring, mounted>>

\* ------------------------------------------------------------------------
\* Specification
\* ------------------------------------------------------------------------
Step ==
  \/ mounted /\ \E uri \in scenario.uris : connect(uri)
  \/ \E c \in DOMAIN channels : onopen(c)
  \/ \E r \in DOMAIN calls : tempSendRequest(r)
  \/ mounted /\ \E m \in scenario.methods : sendRequestCall(m)
  \/ \E r \in DOMAIN calls : sendRequest(r)
  \/ \E h \in DOMAIN timers : onTimeout(h)
  \/ \E c \in DOMAIN channels : \E f \in InboundFrames(c) : handleMessage(c, f)
  \/ \E j \in DOMAIN jobs : handleDecrypted(j)
  \/ mounted /\ disconnect
  \/ \E c \in DOMAIN channels : onerror(c)
  \/ \E c \in DOMAIN channels : onclose(c)

Next ==
  /\ UNCHANGED <<scenario, lib>>
  /\ \/ restoreConnection /\ UNCHANGED <<mounted, keysends>>
     \/ restoring # -1 /\ Step /\ UNCHANGED <<restoring, mounted, keysends>>
     \/ restoring # -1 /\ unmount
     \/ restoring # -1 /\ \E amount \in {1, 21} : sendKeysendPayment("w2", amount)

Spec == Init /\ [][Next]_vars

\* ------------------------------------------------------------------------
\* Key identifiers: the inputs and the steps of a use of the library
\* ------------------------------------------------------------------------
MaxKeys == 2            \* patterned keys, beside the all-zero and the all-f key

\* keys of 64 lowercase hexadecimal characters
HexKeys ==
  {[i \in 1..64 |-> "0"], [i \in 1..64 |-> "f"]} \cup
  {[i \in 1..64 |-> HexDigits[((i * (2 * seed + 1) + seed) % 16) + 1]] : seed \in 1..MaxKeys}

IdentifierInputs ==
  [family : {"bech32"}, step : {"input"}, kind : {"npub", "nsec"}, hex : HexKeys,
   id : {Err("")}, encoded : {Err("")}, decoded : {Err("")}, out : {Err("")}]

\* hexToNpub(hex) / hexToNsec(hex)
EncodeIdentifier ==
  /\ lib.family = "bech32" /\ lib.step = "input"
  /\ LET id == IF lib.kind = "npub" THEN hexToNpub(lib.hex) ELSE hexToNsec(lib.hex) IN
     lib' = [lib EXCEPT !.step = "encoded", !.id = id, !.encoded = id]

\* a user or a peer hands over the identifier with the character at position
\* pos (payload or checksum) replaced by another character of the alphabet
ReplaceCharacter(pos, ch) ==
  /\ lib.family = "bech32" /\ lib.step = "encoded" /\ lib.id.ok
  /\ pos \in 6..Len(lib.id.value)
  /\ lib.id.value[pos] # ch
  /\ lib' = [lib EXCEPT !.step = "replaced", !.id = Ok([lib.id.value EXCEPT ![pos] = ch])]

\* npubToHex(id) / nsecToHex(id), and bech32Decode(id) for the prefix
DecodeIdentifier ==
  /\ lib.family = "bech32" /\ lib.step \in {"encoded", "replaced"} /\ lib.id.ok
  /\ lib' = [lib EXCEPT !.step = IF lib.step = "encoded" THEN "decoded" ELSE "decoded replaced",
                        !.decoded = bech32Decode(lib.id.value),
                        !.out = IF lib.kind = "npub" THEN npubToHex(lib.id.value)
                                ELSE nsecToHex(lib.id.value)]

\* ------------------------------------------------------------------------
\* Encrypted messages: the inputs and the steps of a use of the library
\* ------------------------------------------------------------------------
MaxPrivateKey == 2      \* private keys 1..MaxPrivateKey
MaxNonces == 1          \* nonces of 32 bytes
MaxPlaintext == 100     \* the longest plaintext, in bytes

\* a sender and a recipient with different private keys; plaintexts of
\* printable ASCII characters: empty, one byte, up to and over the smallest
\* padded size, and long enough for a padded block of over 96 bytes
MessageInputs ==
  LET Nonces == {[i \in 1..32 |-> (i * 7 + seed) % 256] : seed \in 1..MaxNonces}
      Plaintexts ==
        {[i \in 1..n |-> 32 + ((i * 13) % 95)] : n \in {0, 1, 32, 33, MaxPlaintext}} IN
  {m \in [family : {"nip44"}, step : {"input"}, sender : 1..MaxPrivateKey,
          recipient : 1..MaxPrivateKey, nonce : Nonces, plaintext : Plaintexts,
          key : {<<>>}, blob : {Err("")}, changed : {{}}, malformed : {FALSE},
          out : {Err("")}] : m.sender # m.recipient}

\* encryptMessage(plaintext, senderPrivateKeyHex, recipientPublicKeyHex)
EncryptMessage ==
  /\ lib.family = "nip44" /\ lib.step = "input"
  /\ LET conversationKey == getConversationKeyBytes(lib.sender, PublicKeyOf(lib.recipient)) IN
     lib' = [lib EXCEPT !.step = "encrypted", !.key = conversationKey,
                        !.blob = encryptPayload(lib.plaintext, conversationKey, lib.nonce)]

\* a peer that holds the conversation key sends a block whose length prefix
\* is not the length of a plaintext in it: 0, or more than the block holds
SealMalformed(prefix) ==
  /\ lib.family = "nip44" /\ lib.step = "input" /\ pad(lib.plaintext).ok
  /\ LET conversationKey == getConversationKeyBytes(lib.sender, PublicKeyOf(lib.recipient))
         padded == pad(lib.plaintext).value IN
     /\ \/ prefix = 0
        \/ prefix > Len(padded) - 2
     /\ lib' = [lib EXCEPT !.step = "encrypted", !.key = conversationKey, !.malformed = TRUE,
                           !.blob = Ok(Seal(LengthPrefix(prefix) \o SubSeq(padded, 3, Len(padded)),
                                            conversationKey, lib.nonce))]

\* the blob reaches the recipient with the byte at position pos (the version
\* byte, a byte of the nonce, of the ciphertext or of the MAC) changed; a
\* second change is one of the version byte, in its lowest bit
ChangeByte(pos, delta) ==
  /\ lib.family = "nip44" /\ lib.step = "encrypted" /\ lib.blob.ok
  /\ pos \in 1..Len(atob(lib.blob.value))
  /\ pos \notin lib.changed
  /\ lib.changed = {} \/ (pos = 1 /\ delta = 1)
  /\ lib' = [lib EXCEPT !.changed = lib.changed \cup {pos},
                        !.blob = Ok(btoa([atob(lib.blob.value) EXCEPT
                                            ![pos] = Xor(atob(lib.blob.value)[pos], delta)]))]

\* decryptMessage(ciphertext, recipientPrivateKeyHex, senderPublicKeyHex)
DecryptMessage ==
  /\ lib.family = "nip44" /\ lib.step = "encrypted" /\ lib.blob.ok
  /\ lib' = [lib EXCEPT !.step = "decrypted",
                        !.out = decryptPayload(lib.blob.value,
                                  getConversationKeyBytes(lib.recipient, PublicKeyOf(lib.sender)))]

\* ------------------------------------------------------------------------
\* Padding: the inputs and the steps of a use of the library
\* ------------------------------------------------------------------------
\* before a plaintext length is chosen
PaddingInput ==
  [family |-> "pad", step |-> "input", n |-> 0, size |-> 0, next |-> 0,
   prefix |-> <<>>, out |-> Err("")]

\* calcPadding(n) and calcPadding(n + 1), and the length prefix pad writes
CalcPadding(n) ==
  /\ lib.family = "pad" /\ lib.step = "input"
  /\ lib' = [lib EXCEPT !.step = "size", !.n = n, !.size = calcPadding(n),
                        !.next = calcPadding(n + 1), !.prefix = LengthPrefix(n)]

\* pad(plaintext), for a plaintext of n bytes
PadPlaintext(n) ==
  /\ lib.family = "pad" /\ lib.step = "input"
  /\ lib' = [lib EXCEPT !.step = "padded", !.n = n,
                        !.out = pad([i \in 1..n |-> 32 + ((i * 13) % 95)])]

\* ------------------------------------------------------------------------
\* The library functions in use, apart from the hook
\* ------------------------------------------------------------------------
InitLib ==
  /\ scenario = Concurrent
  /\ connectionState = State(DISCONNECTED, NULL, NULL, NULL)
  /\ wsRef = 0
  /\ connectionParamsRef = None
  /\ subscriptionIdRef = 0
  /\ connectionUriRef = None
  /\ localStorage = None
  /\ pendingRequests = EmptyMap
  /\ timers = EmptyMap
  /\ channels = <<>>
  /\ calls = <<>>
  /\ jobs = <<>>
  /\ disconnects = 0
  /\ restoring = -1
  /\ dispatched = {}
  /\ mounted = TRUE
  /\ keysends = <<>>
  /\ lib \in IdentifierInputs \cup MessageInputs \cup {PaddingInput}

NextLib ==
  /\ UNCHANGED hookVars
  /\ \/ EncodeIdentifier
     \/ /\ lib.family = "bech32" /\ lib.step = "encoded"
        /\ \E pos \in 6..63 :
             \* replaced by the first, the second or the last character of the alphabet
             \E ch \in {BECH32_CHARSET[1], BECH32_CHARSET[2], BECH32_CHARSET[32]} :
               ReplaceCharacter(pos, ch)
     \/ DecodeIdentifier
     \/ EncryptMessage
     \/ /\ lib.family = "nip44" /\ lib.step = "input"
        /\ \E prefix \in {0, MAX_PLAINTEXT_SIZE} : SealMalformed(prefix)
     \/ /\ lib.family = "nip44" /\ lib.step = "encrypted"
        \* a byte changed in its lowest or in its highest bit
        /\ \E pos \in 1..(MaxPlaintext + 131) : \E delta \in {1, 128} : ChangeByte(pos, delta)
     \/ DecryptMessage
     \* every plaintext length from 0 to one over the largest
     \/ /\ lib.family = "pad" /\ lib.step = "input"
        /\ \E n \in 0..(MAX_PLAINTEXT_SIZE + 1) : CalcPadding(n)
     \* the plaintexts of up to MaxPlaintext bytes, of the largest length and over
     \/ /\ lib.family = "pad" /\ lib.step = "input"
        /\ \E n \in (0..MaxPlaintext) \cup {MAX_PLAINTEXT_SIZE, MAX_PLAINTEXT_SIZE + 1} :
             PadPlaintext(n)

SpecLib == InitLib /\ [][NextLib]_vars

\* ------------------------------------------------------------------------
\* Properties
\* ------------------------------------------------------------------------
Settled(r) == calls[r].settles # <<>>
TimedOut(r) == calls[r].settles = <<Reject("Request timeout")>>

\* C1: a request registered in the pending table is settled exactly once, by
\* the first of its Response, its timer or disconnect(); that step removes the
\* table entry and cancels the timer, and nothing changes the caller afterwards
\* (a late Response is ignored, the timer never fires after a settlement).
C1_SettledExactlyOnce ==
  [][\A r \in DOMAIN calls :
       /\ Len(calls'[r].settles) <= 1
       /\ (r \in PendingCalls /\ r \notin PendingCalls')
            => /\ calls[r].settles = <<>>
               /\ Len(calls'[r].settles) = 1
               /\ r \notin DOMAIN timers'
       /\ (calls[r].registered /\ calls'[r].settles # calls[r].settles)
            => r \in PendingCalls /\ r \notin PendingCalls'
       /\ Settled(r) => calls'[r] = calls[r]]_vars

\* C2: a Response that decrypts and parses settles the pending request whose id
\* is the Response's "e" tag, with the carried result or the carried error, and
\* changes no other request.
C2_ResponseCorrelation ==
  [][\A j \in DOMAIN jobs :
       LET dec == decryptMessage(jobs[j].content, jobs[j].secret, jobs[j].walletPubkey) IN
       (handleDecrypted(j) /\ jobs[j].kind = RESPONSE /\ dec # None /\ dec[1].json)
         => \A r \in DOMAIN calls :
              /\ calls[r].id # jobs[j].e => calls'[r] = calls[r]
              /\ (calls[r].id = jobs[j].e /\ r \in PendingCalls)
                   => calls'[r].settles =
                        <<IF dec[1].hasError
                          THEN Reject("INSUFFICIENT_BALANCE: no funds")
                          ELSE Resolve(dec[1].result)>>]_vars

\* C3: the timer of a registered request runs for 30 s (sendRequest) or 10 s
\* (startup probe); when it fires the caller is rejected with a timeout error
\* and the entry leaves the pending table, whose size drops by one.
C3_Timeout ==
  /\ [](\A id \in DOMAIN pendingRequests :
          /\ pendingRequests[id].timeout \in DOMAIN timers
          /\ timers[pendingRequests[id].timeout].delay =
               IF calls[pendingRequests[id].call].src = "probe" THEN 10000 ELSE 30000)
  /\ [][\A h \in DOMAIN timers :
          (onTimeout(h) /\ h \in PendingCalls)
            => /\ calls'[h].settles = <<Reject("Request timeout")>>
               /\ h \notin PendingCalls'
               /\ Cardinality(DOMAIN pendingRequests') =
                    Cardinality(DOMAIN pendingRequests) - 1]_vars

\* the startup probe and a sendRequest call both timed out
C3_Witness ==
  \E r1, r2 \in DOMAIN calls :
    /\ calls[r1].src = "probe" /\ calls[r1].registered /\ TimedOut(r1)
    /\ calls[r2].src = "sendRequest" /\ calls[r2].registered /\ TimedOut(r2)

C5_NoResolveAfterDisconnect ==
  [][\A r \in DOMAIN calls :
       (Len(calls'[r].settles) > Len(calls[r].settles)
          /\ calls'[r].settles[Len(calls'[r].settles)].type = "resolve")
         => calls[r].epoch = disconnects']_vars

\* C6: the pending table holds exactly the registered requests whose caller is
\* not settled: no entry of a completed request, no sent request without entry.
C6_TableInvariant ==
  /\ \A id \in DOMAIN pendingRequests :
       LET r == pendingRequests[id].call IN
       r \in DOMAIN calls /\ calls[r].id = id /\ calls[r].registered /\ ~Settled(r)
  /\ \A r \in DOMAIN calls :
       (calls[r].registered /\ ~Settled(r)) => calls[r].id \in DOMAIN pendingRequests
  /\ \A r, q \in DOMAIN calls :
       (calls[r].registered /\ calls[q].registered /\ r # q) => calls[r].id # calls[q].id

\* C7: a sendRequest call made while status is not Connected is rejected with
\* a not-connected error, registers no table entry and publishes no frame.
C7_NotConnectedRejects ==
  \A r \in DOMAIN calls :
    (calls[r].src = "sendRequest" /\ calls[r].status # CONNECTED)
      => /\ ~calls[r].registered
         /\ calls[r].sentOn = 0
         /\ Settled(r) => calls[r].settles[1] \in {Reject("Not connected to NWC"),
                                                   Reject("WebSocket not connected")}

\* a descriptor as the connection URI format requires it
WellFormed(uri) ==
  /\ uri.scheme = "nostr+walletconnect://"
  /\ uri.pubkey \in Hex64
  /\ uri.relay \in {"wss://r1"}
  /\ uri.secret \in Hex64

\* C8: connect() with a malformed descriptor changes nothing: ConnectionState,
\* the storage slot, the pending table and the current channel stay as they
\* were and no channel is opened.
C8_MalformedChangesNothing ==
  [][\A uri \in URIs :
       (connect(uri) /\ ~WellFormed(uri))
         => UNCHANGED <<connectionState, localStorage, pendingRequests, wsRef,
                        channels>>]_vars

\* C9: status becomes Connected only in the open event of a channel, which
\* publishes the REQ frame with the subscription filter as the first frame of
\* the channel; on every channel a REQ frame precedes every EVENT frame.
C9_ConnectedByOpen ==
  /\ [][(connectionState.status # CONNECTED /\ connectionState'.status = CONNECTED)
          => \E c \in DOMAIN channels :
               /\ channels[c].readyState = "CONNECTING"
               /\ channels'[c].readyState = "OPEN"
               /\ channels'[c].sent =
                    <<[type |-> "REQ", sub |-> c,
                       filter |-> [kinds |-> <<23195, 23197, 13194>>,
                                   authors |-> <<channels[c].params.walletPubkey>>,
                                   p |-> <<getPublicKey(channels[c].params.secret)[1]>>]]>>]_vars
  /\ [](\A c \in DOMAIN channels :
          \A i \in DOMAIN channels[c].sent :
            channels[c].sent[i].type = "EVENT"
              => \E k \in 1..(i - 1) : channels[c].sent[k].type = "REQ")

\* a channel carries its REQ frame followed by the probe and a request
C9_Witness ==
  /\ connectionState.status = CONNECTED
  /\ \E c \in DOMAIN channels :
       /\ Len(channels[c].sent) >= 3
       /\ channels[c].sent[1].type = "REQ"
       /\ channels[c].sent[2].type = "EVENT"
       /\ channels[c].sent[3].type = "EVENT"

\* C10: a channel error while Connecting or Connected sets status Error; from
\* Error a connect() with a valid descriptor creates a channel whose open event
\* reaches Connected, and a request sent then is registered and published on
\* that channel.
C10_ErrorRecovery ==
  /\ [][\A c \in DOMAIN channels :
          (onerror(c) /\ connectionState.status \in {CONNECTING, CONNECTED})
            => connectionState'.status = ERROR]_vars
  /\ [][(connectionState.status = ERROR /\ connect(UriA))
          => /\ connectionState'.status = CONNECTING
             /\ Len(channels') = Len(channels) + 1
             /\ channels'[Len(channels')].readyState = "CONNECTING"]_vars
  /\ [][\A c \in DOMAIN channels :
          (onopen(c) /\ channels[c].params = parseConnectionUri(UriA)[1])
            => connectionState'.status = CONNECTED /\ wsRef' = c]_vars
  /\ [][\A r \in DOMAIN calls :
          (sendRequest(r) /\ wsRef # 0 /\ channels[wsRef].readyState = "OPEN")
            => /\ calls'[r].registered
               /\ r \in PendingCalls'
               /\ Len(channels'[wsRef].sent) = Len(channels[wsRef].sent) + 1
               /\ channels'[wsRef].sent[Len(channels'[wsRef].sent)].event.id = calls'[r].id]_vars

\* the first channel failed before it opened; on the second one a request was
\* published and resolved
C10_Witness ==
  /\ Len(channels) = 2
  /\ channels[1].errorFired /\ channels[1].sent = <<>>
  /\ wsRef = 2
  /\ connectionState.status = CONNECTED
  /\ \E r \in DOMAIN calls :
       /\ calls[r].src = "sendRequest"
       /\ calls[r].sentOn = 2
       /\ calls[r].settles = <<Resolve(Result(r))>>

\* C11: a channel-closed event while status is Connected, Connecting or Error
\* sets status Disconnected; afterwards, as long as neither connect() nor
\* disconnect() is called, no channel is created and status stays
\* Disconnected. (Without a disconnect() call, status Disconnected in a state
\* with a delivered close event was set by a close event.)
C11_ClosedStaysDisconnected ==
  /\ [][\A c \in DOMAIN channels :
          (onclose(c) /\ connectionState.status \in {CONNECTED, CONNECTING, ERROR})
            => connectionState'.status = DISCONNECTED]_vars
  /\ [][(/\ disconnects = 0
         /\ \E c \in DOMAIN channels : channels[c].closeFired
         /\ connectionState.status = DISCONNECTED
         /\ ~ \E uri \in URIs : connect(uri))
          => /\ connectionState'.status = DISCONNECTED
             /\ Len(channels') = Len(channels)]_vars

\* C12: from disconnect() until the next connect() call (connectionUriRef is
\* null exactly then) status is Disconnected and every channel the client
\* created is closing or closed.
C12_DisconnectCloses ==
  (disconnects > 0 /\ connectionUriRef = None)
    => /\ connectionState.status = DISCONNECTED
       /\ \A c \in DOMAIN channels : channels[c].readyState \in {"CLOSING", "CLOSED"}

\* C13: when the startup probe fails (its timer fires or an error Response
\* settles it), ConnectionState is left as it is (status and capabilities
\* included), the current channel and its parameters stay in place, and the
\* pending promise of connect() resolves.
C13_ProbeFailureHarmless ==
  [][\A r \in DOMAIN calls :
       (/\ calls[r].src = "probe"
        /\ calls[r].registered
        /\ calls[r].settles = <<>>
        /\ calls'[r].settles \in {<<Reject("Request timeout")>>,
                                  <<Reject("INSUFFICIENT_BALANCE: no funds")>>})
         => /\ connectionState' = connectionState
            /\ wsRef' = wsRef
            /\ connectionParamsRef' = connectionParamsRef
            /\ channels'[calls[r].ws].promise =
                 IF channels[calls[r].ws].promise = "pending" THEN "resolved"
                 ELSE channels[calls[r].ws].promise]_vars

\* the probe got an error Response; the connection is up without capabilities
\* and a later request was answered
C13_Witness ==
  \E r, q \in DOMAIN calls :
    /\ calls[r].src = "probe"
    /\ calls[r].settles = <<Reject("INSUFFICIENT_BALANCE: no funds")>>
    /\ channels[calls[r].ws].promise = "resolved"
    /\ connectionState.status = CONNECTED
    /\ connectionState.capabilities = None
    /\ wsRef = calls[r].ws
    /\ calls[q].src = "sendRequest"
    /\ calls[q].sentOn = wsRef
    /\ calls[q].settles = <<Resolve(Result(q))>>

\* C14: the storage slot receives a connection URI only in the open event of
\* the channel created for that URI.
C14_StoredOnOpen ==
  [][(localStorage' # localStorage /\ localStorage' # None)
       => \E c \in DOMAIN channels :
            /\ channels[c].readyState = "CONNECTING"
            /\ channels'[c].readyState = "OPEN"
            /\ parseConnectionUri(localStorage'[1]) = Some(channels[c].params)]_vars

Defective(content, key) ==
  \/ content.version # 2
  \/ ~content.intact
  \/ content.ck # key
  \/ ~content.padded
  \/ ~content.plain.json

\* C16: a Response whose content has another version byte, a wrong MAC, an
\* invalid padding or a plaintext that is not JSON settles no request and
\* leaves the pending table, its timers and ConnectionState unchanged; the
\* addressed request stays outstanding.
C16_FailClosed ==
  [][\A j \in DOMAIN jobs :
       (/\ handleDecrypted(j)
        /\ jobs[j].kind = RESPONSE
        /\ Defective(jobs[j].content,
                     {getPublicKey(jobs[j].secret)[1], jobs[j].walletPubkey}))
         => /\ UNCHANGED <<pendingRequests, timers, calls, connectionState>>
            /\ jobs[j].e \in DOMAIN pendingRequests
                 => jobs[j].e \in DOMAIN pendingRequests']_vars

\* a Response with a wrong MAC for an outstanding request is being handled
C16_Witness ==
  \E j \in DOMAIN jobs :
    /\ jobs[j].kind = RESPONSE
    /\ ~jobs[j].content.intact
    /\ jobs[j].e \in DOMAIN pendingRequests
    /\ calls[pendingRequests[jobs[j].e].call].src = "sendRequest"

\* C17: handling a Notification, before and after its decryption, leaves the
\* pending table, its timers, every caller and ConnectionState unchanged, also
\* when its "e" tag is the id of an outstanding request; a Notification that
\* does not decrypt or parse changes nothing and dispatches no event.
C17_NotificationNoCorrelation ==
  /\ [][\A c \in DOMAIN channels : \A f \in InboundFrames(c) :
          (handleMessage(c, f) /\ f.type = "EVENT" /\ f.kind = NOTIFICATION)
            => UNCHANGED <<pendingRequests, timers, calls, connectionState,
                           dispatched>>]_vars
  /\ [][\A j \in DOMAIN jobs :
          (handleDecrypted(j) /\ jobs[j].kind = NOTIFICATION)
            => /\ UNCHANGED <<pendingRequests, timers, calls, connectionState>>
               /\ Defective(jobs[j].content,
                            {getPublicKey(jobs[j].secret)[1], jobs[j].walletPubkey})
                    => UNCHANGED <<dispatched, channels, wsRef, connectionParamsRef,
                                   subscriptionIdRef, connectionUriRef,
                                   localStorage>>]_vars

\* one Notification was dispatched and another one, tagged with the id of an
\* outstanding request, is being decrypted
C17_Witness ==
  /\ dispatched # {}
  /\ \E j \in DOMAIN jobs :
       /\ jobs[j].kind = NOTIFICATION
       /\ jobs[j].e \in DOMAIN pendingRequests
       /\ calls[pendingRequests[jobs[j].e].call].src = "sendRequest"

NonEmpty(token) == token # ""

\* C18: handling an inbound frame, before and after any decryption, never
\* changes ConnectionState.status; an Info event sets the capabilities to the
\* non-empty tokens of its content and changes no other field of
\* ConnectionState, no caller, no timer and no entry of the pending table.
C18_FramesKeepStatus ==
  /\ [][\A c \in DOMAIN channels : \A f \in InboundFrames(c) :
          handleMessage(c, f)
            => /\ connectionState'.status = connectionState.status
               /\ (f.type = "EVENT" /\ f.kind = INFO)
                    => /\ connectionState' =
                            [connectionState EXCEPT
                               !.capabilities = Some(SelectSeq(f.text, NonEmpty))]
                       /\ UNCHANGED <<pendingRequests, timers, calls>>]_vars
  /\ [][\A j \in DOMAIN jobs :
          handleDecrypted(j) => connectionState'.status = connectionState.status]_vars

\* an Info event set the capabilities while the probe is unanswered and the
\* balance is known
C18_Witness ==
  /\ connectionState.status = CONNECTED
  /\ connectionState.capabilities = Some(<<"pay_invoice", "get_balance">>)
  /\ connectionState.balance # None
  /\ \E r \in PendingCalls : calls[r].src = "probe"

\* C19: parseConnectionUri returns a descriptor exactly for the URIs with the
\* scheme nostr+walletconnect://, a 64-hex wallet public key, a relay and a
\* 64-hex secret, and a descriptor it returns has every required field.
C19_ParseValidates ==
  \A uri \in scenario.uris :
    LET valid == /\ uri.scheme = "nostr+walletconnect://"
                 /\ uri.pubkey \in Hex64
                 /\ uri.relay \notin {NULL, ""}
                 /\ uri.secret \in Hex64
        parsed == parseConnectionUri(uri) IN
    /\ valid <=> parsed # None
    /\ parsed # None
         => /\ parsed[1].walletPubkey = uri.pubkey /\ uri.pubkey \notin {NULL, ""}
            /\ parsed[1].relay = uri.relay /\ uri.relay \notin {NULL, ""}
            /\ parsed[1].secret = uri.secret /\ uri.secret \notin {NULL, ""}

\* the EVENT frames channel c has published
EventFrames(chs, c) ==
  {chs[c].sent[i].event : i \in {k \in DOMAIN chs[c].sent : chs[c].sent[k].type = "EVENT"}}

\* C20: every EVENT frame the client publishes carries an event of kind
\* Request whose tags are exactly [["p", wallet public key]], the wallet being
\* the one the publishing call holds, and whose id is
\* the SHA-256 of the canonical array [0, pubkey, created_at, kind, tags,
\* content], so that verifyEventId accepts it; and when the frame is published
\* the pending table already holds an entry under that id, the entry of the
\* call that built the event.
C20_PublishedEvents ==
  /\ [](\A c \in DOMAIN channels : \A event \in EventFrames(channels, c) :
          /\ event.kind = 23194
          /\ \E r \in DOMAIN calls : calls[r].id = event.id
          /\ Len(event.tags) = 1 /\ Len(event.tags[1]) = 2 /\ event.tags[1][1] = "p"
          /\ event.id = [digest |-> <<0, event.pubkey, event.created_at, event.kind,
                                       event.tags, event.content>>]
          /\ verifyEventId(event.id, event.pubkey, event.created_at, event.kind,
                           event.tags, event.content))
  /\ [][\A c \in DOMAIN channels :
          \A event \in EventFrames(channels', c) \ EventFrames(channels, c) :
            /\ event.id \notin DOMAIN pendingRequests
            /\ event.id \in DOMAIN pendingRequests'
            /\ calls'[pendingRequests'[event.id].call].id = event.id
            /\ calls'[pendingRequests'[event.id].call].sentOn = c
            /\ event.tags =
                 <<<<"p", calls[pendingRequests'[event.id].call].walletPubkey>>>>]_vars

\* one channel has published the probe's event and the event of a sendRequest
\* call, and both are pending under their ids
C20_Witness ==
  \E c \in DOMAIN channels : \E e1, e2 \in EventFrames(channels, c) :
    /\ e1.id \in DOMAIN pendingRequests /\ e2.id \in DOMAIN pendingRequests
    /\ calls[pendingRequests[e1.id].call].src = "probe"
    /\ calls[pendingRequests[e2.id].call].src = "sendRequest"

\* C21: identifier round trip. For every 64-character lowercase hex key and
\* each prefix, the encoded identifier is 63 characters long, passes
\* isValidNpub / isValidNsec, and decodes to the same prefix and the same key:
\* npubToHex(hexToNpub(k)) = k and nsecToHex(hexToNsec(k)) = k.
C21_IdentifierRoundTrip ==
  (lib.family = "bech32" /\ lib.step = "decoded")
    => /\ lib.encoded.ok
       /\ Len(lib.encoded.value) = 63
       /\ IF lib.kind = "npub" THEN isValidNpub(lib.encoded.value)
          ELSE isValidNsec(lib.encoded.value)
       /\ lib.decoded.ok
       /\ lib.decoded.value.prefix = (IF lib.kind = "npub" THEN Npub ELSE Nsec)
       /\ Len(lib.decoded.value.data) = 32
       /\ lib.out = Ok(lib.hex)

\* an nsec of a key that is neither all zeros nor all f has been encoded and
\* decoded again
C21_Witness ==
  /\ lib.family = "bech32" /\ lib.step = "decoded" /\ lib.kind = "nsec"
  /\ lib.hex[1] \notin {"0", "f"}
  /\ lib.out.ok

\* C22: identifier decoding verifies the checksum: an identifier obtained from
\* a valid one by replacing one payload or checksum character with a different
\* character of the alphabet is rejected by npubToHex / nsecToHex, never
\* decoded to a key.
C22_ChecksumVerified ==
  (lib.family = "bech32" /\ lib.step = "decoded replaced") => ~lib.out.ok

C24_TamperIsAuthenticationError ==
  lib.family = "nip44" /\ lib.step = "decrypted" /\ Cardinality(lib.changed) = 1
    => lib.out = Err("Invalid MAC")

\* C24, amended: changing any single byte of a blob makes decrypt fail, with
\* the unsupported-version error when the version byte was changed and with an
\* authentication error when a byte of the nonce, of the ciphertext or of the
\* MAC was; decrypt never returns a plaintext.
C24_TamperDetection ==
  lib.family = "nip44" /\ lib.step = "decrypted" /\ Cardinality(lib.changed) = 1
    => /\ ~lib.out.ok
       /\ lib.out = IF 1 \in lib.changed THEN Err("Unsupported encryption version")
                    ELSE Err("Invalid MAC")

C24_Witness ==
  /\ lib.family = "nip44" /\ lib.step = "decrypted" /\ ~lib.malformed
  /\ lib.changed = {Len(atob(lib.blob.value))}
  /\ lib.out = Err("Invalid MAC")

\* C26: the padded block is encrypted with a genuine stream cipher, never with
\* a repeating-XOR keystream: the keystream byte at position i (the ciphertext
\* byte XOR the byte of the padded block) is not determined by key[i mod 32] and
\* nonce[i mod 12] alone, so over a block of more than 96 bytes the keystream
\* does not repeat with period 96.
C26_GenuineStreamCipher ==
  lib.family = "nip44" /\ lib.step = "encrypted" /\ ~lib.malformed /\ lib.changed = {} /\
  lib.blob.ok /\ Len(pad(lib.plaintext).value) > 96
    => LET padded == pad(lib.plaintext).value
           payload == atob(lib.blob.value)
           keystream == [i \in 1..Len(padded) |-> Xor(payload[33 + i], padded[i])] IN
       \E i \in 1..(Len(padded) - 96) : keystream[i] # keystream[i + 96]

\* C27: decrypt checks in a fixed order and stops at the first failure. A blob
\* with an unknown version byte is rejected as such, whatever its MAC; a blob
\* with the known version and a MAC that does not match is rejected for its
\* MAC, whatever the block holds; only a blob that passes both is decrypted,
\* and then a length prefix outside 1..65535 or over the size of the block is
\* a decoding error, and the plaintext is returned otherwise.
C27_DecryptCheckOrder ==
  lib.family = "nip44" /\ lib.step = "decrypted"
    => lib.out = IF 1 \in lib.changed THEN Err("Unsupported encryption version")
                 ELSE IF lib.changed # {} THEN Err("Invalid MAC")
                 ELSE IF lib.malformed THEN Err("Invalid padding")
                 ELSE Ok(lib.plaintext)

\* a block with a wrong length prefix, in a blob with a byte of the MAC and
\* the version byte changed
C27_Witness ==
  /\ lib.family = "nip44" /\ lib.step = "decrypted" /\ lib.malformed
  /\ lib.changed = {1, Len(atob(lib.blob.value))}
  /\ lib.out = Err("Unsupported encryption version")

\* C25: key agreement symmetry. The conversation key a sender derives from its
\* private key and the recipient's public key is the 76 bytes the recipient
\* derives from its private key and the sender's public key, so what one party
\* encrypts with encryptMessage the other decrypts with decryptMessage to the
\* same plaintext.
C25_KeyAgreementSymmetry ==
  lib.family = "nip44" /\ lib.step # "input"
    => /\ Len(lib.key) = 76
       /\ lib.key = getConversationKeyBytes(lib.recipient, PublicKeyOf(lib.sender))
       /\ lib.step = "decrypted" /\ ~lib.malformed /\ lib.changed = {}
            => lib.out = Ok(lib.plaintext)

C25_Witness ==
  /\ lib.family = "nip44" /\ lib.step = "decrypted" /\ ~lib.malformed /\ lib.changed = {}
  /\ lib.sender = 1 /\ lib.recipient = MaxPrivateKey
  /\ lib.key = getConversationKeyBytes(MaxPrivateKey, PublicKeyOf(1))
  /\ lib.out.ok

\* C28: pad rejects a plaintext of 0 bytes and one of more than 65535 bytes;
\* for every length n in 1..65535 the padded size calcPadding(n) is a multiple
\* of 32, at least n, 32 when n <= 32, not larger than the padded size of
\* n + 1, and the two bytes of the length prefix read big-endian give n; the
\* padded block is the prefix, the plaintext and zeros up to the padded size.
C28_Padding ==
  /\ lib.family = "pad" /\ lib.step = "size" /\
     lib.n \in MIN_PLAINTEXT_SIZE..MAX_PLAINTEXT_SIZE
       => /\ lib.size % 32 = 0
          /\ lib.size >= lib.n
          /\ lib.n <= 32 => lib.size = 32
          /\ lib.size <= lib.next
          /\ lib.prefix \in (0..255) \X (0..255)
          /\ lib.prefix[1] * 256 + lib.prefix[2] = lib.n
  /\ lib.family = "pad" /\ lib.step = "padded"
       => IF lib.n \in MIN_PLAINTEXT_SIZE..MAX_PLAINTEXT_SIZE
          THEN /\ lib.out.ok
               /\ Len(lib.out.value) = 2 + calcPadding(lib.n)
               /\ lib.out.value[1] * 256 + lib.out.value[2] = lib.n
               /\ \A i \in 1..lib.n : lib.out.value[2 + i] = 32 + ((i * 13) % 95)
               /\ \A i \in (3 + lib.n)..Len(lib.out.value) : lib.out.value[i] = 0
          ELSE lib.out = Err("Invalid plaintext length")

C28_Witness ==
  /\ lib.family = "pad" /\ lib.step = "padded" /\ lib.n = MaxPlaintext
  /\ lib.out.ok /\ Len(lib.out.value) > 2 + MaxPlaintext
  /\ lib.out.value[1] * 256 + lib.out.value[2] = MaxPlaintext

\* C29: the descriptor in the storage slot is removed only by disconnect() or
\* by a startup restoration that fails (restoreConnection's connect throws, or
\* the channel it awaits reports an error before its promise settles). The
\* error event of any other channel, a close event and the unmount of the
\* component leave the slot as it is.
C29_SlotRemovedOnlyByDisconnectOrFailedRestore ==
  [][/\ localStorage # None /\ localStorage' = None
          => \/ disconnects' = disconnects + 1
             \/ restoring = -1 /\ restoring' = 0
             \/ \E c \in DOMAIN channels :
                  /\ restoring = c
                  /\ channels[c].promise = "pending" /\ channels'[c].promise = "rejected"
     /\ mounted /\ ~mounted' => localStorage' = localStorage
     /\ (\E c \in DOMAIN channels : ~channels[c].closeFired /\ channels'[c].closeFired)
          => localStorage' = localStorage
     /\ (\E c \in DOMAIN channels :
           /\ ~channels[c].errorFired /\ channels'[c].errorFired
           /\ ~(restoring = c /\ channels[c].promise = "pending"))
          => localStorage' = localStorage]_vars

\* the component was unmounted, its channel was closed by the cleanup and has
\* reported it, and the slot still holds the descriptor
C29_Witness ==
  /\ ~mounted
  /\ localStorage = Some(UriA)
  /\ \E c \in DOMAIN channels :
       /\ channels[c].closeFired
       /\ \E i \in DOMAIN channels[c].sent : channels[c].sent[i].type = "CLOSE"

\* C30: sendKeysendPayment sends a keysend payment to the recipient it is
\* given. When the status is Connected and the capabilities contain
\* pay_keysend it issues a request of method pay_keysend whose params carry
\* the recipient's public key and the amount in millisatoshis; otherwise it
\* fails and issues no request.
C30_KeysendRequest ==
  [][Len(keysends') > Len(keysends)
       => LET k == keysends'[Len(keysends')]
              capabilities == connectionState.capabilities IN
          IF /\ connectionState.status = CONNECTED
             /\ capabilities # None
             /\ \E i \in DOMAIN capabilities[1] : capabilities[1][i] = "pay_keysend"
          THEN /\ k.threw = NULL
               /\ k.request # None
               /\ k.request[1].method = "pay_keysend"
               /\ k.request[1].params.amount = k.given.amount * 1000
               /\ "pubkey" \in DOMAIN k.request[1].params
               /\ k.request[1].params.pubkey = k.given.recipientPubkey
               /\ Len(calls') = Len(calls) + 1
               /\ calls'[Len(calls')].method = "pay_keysend"
          ELSE /\ k.threw # NULL
               /\ k.request = None
               /\ calls' = calls]_vars

\* ------------------------------------------------------------------------
\* Channels and connections
\* ------------------------------------------------------------------------
\* the channels that are opening or open
LiveChannels ==
  {c \in DOMAIN channels : channels[c].readyState \in {"CONNECTING", "OPEN"}}

\* C31: at every moment at most one channel created by the client is opening
\* or open, and an open channel is the current one (every other channel the
\* client opened has been closed).
C31_SingleLiveChannel ==
  /\ Cardinality(LiveChannels) <= 1
  /\ \A c \in DOMAIN channels : channels[c].readyState = "OPEN" => wsRef = c

\* C32: once disconnect() has closed a channel and a new connect() has created
\* another, a late channel-closed or channel-error event of the old channel
\* leaves the status (Connecting or Connected) of the new connection as it is.
C32_SupersededChannelEvents ==
  [][\A c \in DOMAIN channels :
       (/\ onclose(c) \/ onerror(c)
        /\ disconnects > 0
        /\ channels[c].readyState = "CLOSING"
        /\ c < Len(channels)
        /\ c # wsRef
        /\ connectionState.status \in {CONNECTING, CONNECTED})
         => connectionState'.status = connectionState.status]_vars

\* C33: no pending request outlives its connection: whenever status is
\* Disconnected, the pending table is empty and no request timer is scheduled.
C33_NoPendingWhileDisconnected ==
  connectionState.status = DISCONNECTED
    => pendingRequests = EmptyMap /\ timers = EmptyMap

\* ------------------------------------------------------------------------
\* Progress of requests
\* ------------------------------------------------------------------------
\* the calls a run can make: the requests and one startup probe per channel
CallIds == 1..(MaxRequests + MaxChannels)

\* the Promise executor of call r runs once encrypting and signing are done
ExecutorRuns(r) ==
  /\ restoring # -1
  /\ r \in DOMAIN calls
  /\ sendRequest(r)
  /\ UNCHANGED <<scenario, lib, restoring, mounted, keysends>>

\* the scheduled timer h fires
TimerFires(h) ==
  /\ restoring # -1
  /\ onTimeout(h)
  /\ UNCHANGED <<scenario, lib, restoring, mounted, keysends>>

\* The runs in which every continuation that is ready runs and every scheduled
\* timer fires; the relay and the user are free to do anything or nothing.
FairScenarios == {Settle, Unmount, Keysend}

InitFair == Init /\ scenario \in FairScenarios

FairSpec ==
  /\ InitFair
  /\ [][Next]_vars
  /\ \A r \in CallIds : WF_vars(ExecutorRuns(r))
  /\ \A h \in CallIds : WF_vars(TimerFires(h))

\* C34: every call of sendRequest eventually settles its caller, and every
\* entry it put into the pending table eventually leaves the table, whatever
\* the relay does, provided scheduled timers fire.
C34_RequestsSettle ==
  \A r \in CallIds :
    /\ (r \in DOMAIN calls /\ calls[r].src = "sendRequest")
         ~> (r \in DOMAIN calls /\ calls[r].settles # <<>>)
    /\ (r \in PendingCalls /\ calls[r].src = "sendRequest") ~> (r \notin PendingCalls)

\* C35: whenever the promise returned by connect() resolves, status is
\* Connected and the channel created by that call is open and is the current
\* channel, also when the channel closes or disconnect() is called while the
\* startup probe is outstanding.
C35_ResolvedMeansConnected ==
  [][\A c \in DOMAIN channels :
       (channels[c].promise = "pending" /\ channels'[c].promise = "resolved")
         => /\ connectionState'.status = CONNECTED
            /\ wsRef' = c
            /\ channels'[c].readyState = "OPEN"]_vars

\* C36: a request is published only on the connection it was built for: when
\* disconnect() was called (and a new connection made) while sendRequest was
\* still encrypting and signing, the request is not published on any channel
\* and no pending entry is registered for it.
C36_PublishedOnOwnConnection ==
  [][\A r \in DOMAIN calls :
       (/\ calls[r].src = "sendRequest"
        /\ ~calls[r].registered
        /\ calls[r].epoch < disconnects)
         => /\ ~calls'[r].registered
            /\ calls'[r].sentOn = 0
            /\ r \notin PendingCalls']_vars

====
